---- MODULE Spec2Model ----
(***************************************************************************)
(* The NotificationCenter component (src/src/components/NotificationCenter *)
(* .tsx) as a state machine: the React state of one component instance,    *)
(* the socket it owns, the REST requests it has in flight, and one action  *)
(* per effect, socket handler, click handler and response continuation.    *)
(* JavaScript runs every handler to completion on one thread, so each      *)
(* handler (up to its next await) is one atomic action.                    *)
(***************************************************************************)
EXTENDS Integers, Sequences, FiniteSets

\* ------------------------------------------------------------------ bounds
MaxLen == 2        \* longest notification list the model lets the store hold
MaxUnread == 2     \* largest value the model lets the unread counter reach
MaxInFlight == 2   \* most REST requests in flight at once

\* ------------------------------------------------------------- input sets
Null == "null"
Tokens == {"t1", "t2"}
Users == {"u1"}
Ids == {"a", "b"}

\* A Notification, reduced to the fields the handlers read or write.
NotificationRecord == [id : Ids, read : BOOLEAN]

\* The payload of a pushed `notification` event; the handler stores it as is.
PushPayloads == {[id |-> i, read |-> FALSE] : i \in Ids}

\* What `notification.id` reads on a payload that carries no id.
Undefined == "undefined"

\* A pushed payload with required fields missing; socket.on hands the handler
\* whatever the server emitted.
MalformedPayloads == {[id |-> Undefined, read |-> FALSE]}

\* The ids a PATCH /notifications/{id}/read can be sent for.
PatchIds == Ids \cup {Undefined}

\* The names a push event can carry besides connect / disconnect /
\* notification: the four informational ones and one with no handler.
InfoEvents == {"new_assignment", "grade_posted", "enrollment_update", "system_message"}
OtherEvents == InfoEvents \cup {"unregistered_event"}

IdsOf(list) == {list[i].id : i \in 1..Len(list)}

DistinctIds(list) == \A i, j \in 1..Len(list) : list[i].id = list[j].id => i = j

\* The lists GET /notifications can answer with: the server's records, each
\* id once, in the server's order.
ServerLists ==
    {l \in UNION {[1..n -> NotificationRecord] : n \in 0..MaxLen} : DistinctIds(l)}

\* The JSON bodies of a 2xx GET /notifications: with or without the field.
ListBodies == {[has |-> TRUE, notifications |-> l] : l \in ServerLists}
              \cup {[has |-> FALSE, notifications |-> <<>>]}

\* The JSON bodies of a 2xx GET /notifications/unread-count.
CountBodies == {[has |-> TRUE, count |-> c] : c \in 0..MaxLen}
               \cup {[has |-> FALSE, count |-> 0]}

\* A response with status 401.
Unauthorized == "401"

\* Why a request does not reach the `if (response.ok)` branch: a status
\* outside 200-299 (401 told apart from the others) or a rejected fetch.
Failures == {"non-2xx", Unauthorized, "network error"}

\* ------------------------------------------------------------------ state
VARIABLES
    mounted,         \* the component instance exists
    token, user,     \* what useAuth() returns
    socket,          \* the instance's socket: "none", "opening", "open", "down"
    openSockets,     \* sockets made by io() and not closed yet
    isConnected,
    notifications,
    unreadCount,
    pendingList,     \* GET /notifications requests in flight
    pendingCount,    \* GET /notifications/unread-count requests in flight
    staleList,       \* those of pendingList issued under an earlier token
    staleCount,      \* those of pendingCount issued under an earlier token
    pendingMark,     \* PATCH /notifications/{id}/read in flight, per id
    pendingMarkAll,  \* PATCH /notifications/mark-all-read in flight
    lastOp           \* the last handler that ran (markAsRead: with its id;
                     \* auth: with the open socket it found, if any;
                     \* unmount: with the socket state it found;
                     \* a failed request: with what became of the failure;
                     \* fetchUnreadCount, notification: with the list
                     \* response, if it was applied right before)

vars == <<mounted, token, user, socket, openSockets, isConnected, notifications, unreadCount,
          pendingList, pendingCount, staleList, staleCount, pendingMark,
          pendingMarkAll,
          lastOp>>

store == <<notifications, unreadCount>>
auth == <<token, user>>
channel == <<socket, isConnected, openSockets>>
requests == <<pendingList, pendingCount, staleList, staleCount, pendingMark, pendingMarkAll>>

NoOp == [op |-> "init", arg |-> Null]

\* The step is one of the handlers that record one of `ops`.
StepOf(ops) == lastOp'.op \in ops

Record(op, arg) == lastOp' = [op |-> op, arg |-> arg]

InFlight ==
    pendingList + pendingCount + pendingMarkAll + pendingMark["a"] + pendingMark["b"]
    + pendingMark[Undefined]

UnreadRecords(list) == {i \in 1..Len(list) : ~list[i].read}

Init ==
    /\ mounted = FALSE
    /\ token = Null
    /\ user = Null
    /\ socket = "none"
    /\ openSockets = 0
    /\ isConnected = FALSE
    /\ notifications = <<>>
    /\ unreadCount = 0
    /\ pendingList = 0
    /\ pendingCount = 0
    /\ staleList = 0
    /\ staleCount = 0
    /\ pendingMark = [i \in PatchIds |-> 0]
    /\ pendingMarkAll = 0
    /\ lastOp = NoOp


\* ------------------------------------------------- the handlers' updaters
\* A variant of Prepend that adds the record at the end of the list.
AppendInstead(notification, prev) == prev \o <<notification>>

\* setNotifications(prev => [notification, ...prev])
Prepend(notification, prev) == <<notification>> \o prev

\* setUnreadCount(prev => prev + 1)
Increment(prev) == prev + 1

\* A variant of NotificationsOrEmpty that turns the fetched list around.
NotificationsReversed(data) ==
    IF data.has
    THEN [i \in 1..Len(data.notifications) |->
             data.notifications[Len(data.notifications) + 1 - i]]
    ELSE <<>>

\* data.notifications || []
NotificationsOrEmpty(data) == IF data.has THEN data.notifications ELSE <<>>

\* data.count || 0
CountOrZero(data) == IF data.has THEN data.count ELSE 0

\* A variant of MarkOne that also clears the flag of every other record.
MarkOnlyOne(prev, notificationId) ==
    [i \in 1..Len(prev) |-> [prev[i] EXCEPT !.read = (prev[i].id = notificationId)]]

\* A variant of MarkOne that forgets the comparison of ids.
MarkOneUnconditional(prev, notificationId) ==
    [i \in 1..Len(prev) |-> [prev[i] EXCEPT !.read = TRUE]]

\* prev.map(n => n.id === notificationId ? { ...n, read: true } : n)
MarkOne(prev, notificationId) ==
    [i \in 1..Len(prev) |->
        IF prev[i].id = notificationId THEN [prev[i] EXCEPT !.read = TRUE] ELSE prev[i]]

\* A variant of DecrementClamped without the Math.max.
DecrementUnclamped(prev) == prev - 1

\* Math.max(0, prev - 1)
DecrementClamped(prev) == IF prev - 1 > 0 THEN prev - 1 ELSE 0

\* A variant of MarkEvery that stops after the first record.
MarkHeadOnly(prev) ==
    [i \in 1..Len(prev) |-> IF i = 1 THEN [prev[i] EXCEPT !.read = TRUE] ELSE prev[i]]

\* prev.map(n => ({ ...n, read: true }))
MarkEvery(prev) == [i \in 1..Len(prev) |-> [prev[i] EXCEPT !.read = TRUE]]

\* A variant of MarkAsReadBeforeAwait that updates the store before the PATCH.
MarkAsReadOptimistic(list, count, notificationId) ==
    <<MarkOne(list, notificationId), DecrementClamped(count)>>

\* markAsRead up to `await fetch(...)`: the store as the call leaves it. No
\* setter runs before the await.
MarkAsReadBeforeAwait(list, count, notificationId) == <<list, count>>

\* A variant of MarkAsReadAfterAwait without the `if (response.ok)`.
MarkAsReadIgnoresOk(ok, list, count, notificationId) ==
    <<MarkOne(list, notificationId), DecrementClamped(count)>>

\* markAsRead after the await: the setters run inside `if (response.ok)`; a
\* non-2xx response skips them and a rejected fetch jumps to the catch.
MarkAsReadAfterAwait(ok, list, count, notificationId) ==
    IF ok THEN <<MarkOne(list, notificationId), DecrementClamped(count)>>
          ELSE <<list, count>>

\* markAllAsRead after the await, the same way.
MarkAllAsReadAfterAwait(ok, list, count) ==
    IF ok THEN <<MarkEvery(list), 0>> ELSE <<list, count>>

\* ------------------------------------------------------------ the effects
\* The cleanup of the connection effect: newSocket.close(). Closing a
\* connected socket.io socket emits `disconnect`, whose handler clears
\* isConnected.
\* (An effect run that returned early has no cleanup: s = "none".)
\* A variant of SocketCleanup that drops the socket without closing it.
CleanupWithoutClose(s, connected, live) == <<"none", connected, live>>

\* A variant of SocketCleanup in which no `disconnect` handler clears the flag.
CleanupKeepsConnected(s, connected, live) ==
    IF s = "none" THEN <<"none", connected, live>> ELSE <<"none", connected, live - 1>>

\* A variant of SocketCleanup that does not look whether a socket is there.
CleanupUnguarded(s, connected, live) == <<"none", FALSE, live - 1>>

SocketCleanup(s, connected, live) ==
    IF s = "none" THEN <<"none", connected, live>> ELSE <<"none", FALSE, live - 1>>

\* The body of the connection effect: no socket without token and user,
\* else io() makes one more socket, which starts its handshake.
SocketEffect(t, u, closed) ==
    IF t = Null \/ u = Null THEN closed ELSE <<"opening", closed[2], closed[3] + 1>>

\* A variant of FetchEffect without the `if (!token) return`.
FetchEffectUnguarded(t) == 1

\* The fetch effect issues both GETs, or neither without a token.
FetchEffect(t) == IF t = Null THEN 0 ELSE 1

\* Both effects after a render in which the dependencies in `changed` differ
\* from the previous render (every dependency differs on mount).
RunEffects(t, u, socketDeps, fetchDeps, s, connected) ==
    /\ LET after == IF socketDeps
                    THEN SocketEffect(t, u, SocketCleanup(s, connected, openSockets))
                    ELSE <<s, connected, openSockets>>
       IN  /\ socket' = after[1]
           /\ isConnected' = after[2]
           /\ openSockets' = after[3]
    /\ LET n == IF fetchDeps THEN FetchEffect(t) ELSE 0
       IN  /\ InFlight + 2 * n <= MaxInFlight
           /\ pendingList' = pendingList + n
           /\ pendingCount' = pendingCount + n
    /\ staleList' = (IF fetchDeps THEN pendingList ELSE staleList)
    /\ staleCount' = (IF fetchDeps THEN pendingCount ELSE staleCount)
    /\ UNCHANGED <<pendingMark, pendingMarkAll>>

\* The parent renders the component: fresh useState values, both effects run.
Mount ==
    /\ ~mounted
    /\ mounted' = TRUE
    /\ RunEffects(token, user, TRUE, TRUE, "none", FALSE)
    /\ UNCHANGED <<auth, store>>
    /\ Record("mount", Null)

\* The parent drops the component: the connection effect's cleanup closes the
\* socket and the instance's state is gone. A response that arrives later
\* calls the setters of an unmounted instance, which React ignores, so the
\* requests of the instance are dropped with it.
Unmount ==
    /\ mounted
    /\ mounted' = FALSE
    /\ LET closed == SocketCleanup(socket, isConnected, openSockets)
       IN  socket' = closed[1] /\ openSockets' = closed[3]
    /\ isConnected' = FALSE
    /\ notifications' = <<>>
    /\ unreadCount' = 0
    /\ pendingList' = 0
    /\ pendingCount' = 0
    /\ staleList' = 0
    /\ staleCount' = 0
    /\ pendingMark' = [i \in PatchIds |-> 0]
    /\ pendingMarkAll' = 0
    /\ UNCHANGED auth
    /\ Record("unmount", socket)

\* useAuth() returns another token or user (login, logout, token rotation).
\* A mounted component re-renders and the effects whose dependencies changed
\* run; its useState values are kept.
AuthChange(t, u) ==
    /\ <<t, u>> # <<token, user>>
    /\ token' = t
    /\ user' = u
    /\ IF mounted
       THEN RunEffects(t, u, TRUE, t # token, socket, isConnected)
       ELSE UNCHANGED <<channel, requests>>
    /\ UNCHANGED <<mounted, store>>
    /\ Record("auth", IF mounted /\ socket = "open" THEN socket ELSE Null)

\* ------------------------------------------------------ socket handlers
\* newSocket.on('connect')
OnConnect ==
    /\ socket = "opening"
    /\ socket' = "open"
    /\ isConnected' = TRUE
    /\ UNCHANGED <<mounted, auth, store, requests, openSockets>>
    /\ Record("connect", Null)

\* newSocket.on('disconnect'), the transport dropping
OnDisconnect ==
    /\ socket = "open"
    /\ socket' = "down"
    /\ isConnected' = FALSE
    /\ UNCHANGED <<mounted, auth, store, requests, openSockets>>
    /\ Record("disconnect", Null)

\* A variant of ManagerReconnect in which a new socket is made for the retry.
ReconnectWithNewSocket(s, connected, live) == <<"opening", connected, live + 1>>

\* io(url, { auth, transports }) leaves `reconnection` at socket.io's default,
\* true: after the transport dropped, the Manager of the same socket starts a
\* new handshake on its own. No io() call, no new socket.
ManagerReconnect(s, connected, live) == <<"opening", connected, live>>

Reconnect ==
    /\ socket = "down"
    /\ LET after == ManagerReconnect(socket, isConnected, openSockets)
       IN  /\ socket' = after[1]
           /\ isConnected' = after[2]
           /\ openSockets' = after[3]
    /\ UNCHANGED <<mounted, auth, store, requests>>
    /\ Record("reconnect", Null)

\* newSocket.on('notification')
OnNotification(notification) ==
    /\ socket = "open"
    /\ Len(notifications) < MaxLen
    /\ unreadCount < MaxUnread
    /\ notifications' = Prepend(notification, notifications)
    /\ unreadCount' = Increment(unreadCount)
    /\ UNCHANGED <<mounted, auth, channel, requests>>
    /\ Record("notification",
              IF lastOp.op = "fetchNotifications" THEN lastOp.op ELSE Null)

\* A variant of OtherEventStore in which an informational handler also
\* bumps the badge.
InfoEventBumpsCounter(name, list, count) ==
    IF name \in InfoEvents /\ count < MaxUnread THEN <<list, count + 1>> ELSE <<list, count>>

\* The store after a push event of another name: the four informational
\* handlers only log, and a name without a handler is dropped by the socket.
OtherEventStore(name, list, count) == <<list, count>>

OnOtherEvent(name) ==
    /\ socket = "open"
    /\ notifications' = OtherEventStore(name, notifications, unreadCount)[1]
    /\ unreadCount' = OtherEventStore(name, notifications, unreadCount)[2]
    /\ UNCHANGED <<mounted, auth, channel, requests>>
    /\ Record(IF name \in InfoEvents THEN "infoEvent" ELSE "unhandledEvent", Null)

\* ------------------------------------------------- failed REST requests
\* A variant of FailureOutcome in which every failed request is logged.
FailureAlwaysLogged(why) == "logged"

\* What the try / catch of the four REST functions does with a failed
\* request: a rejected fetch lands in the catch, which calls console.error;
\* a response that is not ok skips the `if (response.ok)` branch, which has
\* no else. Nothing is rethrown.
FailureOutcome(why) == IF why = "network error" THEN "logged" ELSE "skipped"

\* A variant of CredentialsAfterFailure in which a 401 is handled as by the
\* response interceptor of the axios client: the stored credentials are
\* cleared.
CredentialsAfterIntercepted(why, t, u) ==
    IF why = Unauthorized THEN <<Null, Null>> ELSE <<t, u>>

\* The token and user after a failed request: the four functions call
\* fetch() directly, not the axios client with its 401 interceptor, and none
\* of them looks at response.status.
CredentialsAfterFailure(why, t, u) == <<t, u>>

\* ------------------------------------------------ the initial snapshot
\* fetchNotifications, after the await: a 2xx response replaces the list.
FetchNotificationsOk(data) ==
    /\ pendingList > 0
    /\ pendingList' = pendingList - 1
    /\ \/ staleList > 0 /\ staleList' = staleList - 1
       \/ pendingList > staleList /\ staleList' = staleList
    /\ notifications' = NotificationsOrEmpty(data)
    /\ UNCHANGED <<mounted, auth, channel, unreadCount, pendingCount, staleCount, pendingMark,
                   pendingMarkAll>>
    /\ Record("fetchNotifications", Null)

\* fetchNotifications, after the await: !response.ok skips the branch, a
\* rejected fetch lands in the catch, which logs.
FetchNotificationsFail(why) ==
    /\ pendingList > 0
    /\ pendingList' = pendingList - 1
    /\ \/ staleList > 0 /\ staleList' = staleList - 1
       \/ pendingList > staleList /\ staleList' = staleList
    /\ token' = CredentialsAfterFailure(why, token, user)[1]
    /\ user' = CredentialsAfterFailure(why, token, user)[2]
    /\ UNCHANGED <<mounted, channel, store, pendingCount, staleCount, pendingMark,
                   pendingMarkAll>>
    /\ Record("fetchNotificationsFailed", FailureOutcome(why))

\* fetchUnreadCount, after the await: a 2xx response replaces the counter.
FetchUnreadCountOk(data) ==
    /\ pendingCount > 0
    /\ pendingCount' = pendingCount - 1
    /\ \/ staleCount > 0 /\ staleCount' = staleCount - 1
       \/ pendingCount > staleCount /\ staleCount' = staleCount
    /\ unreadCount' = CountOrZero(data)
    /\ UNCHANGED <<mounted, auth, channel, notifications, pendingList, staleList, pendingMark,
                   pendingMarkAll>>
    /\ Record("fetchUnreadCount",
              IF lastOp.op = "fetchNotifications" THEN lastOp.op ELSE Null)

FetchUnreadCountFail(why) ==
    /\ pendingCount > 0
    /\ pendingCount' = pendingCount - 1
    /\ \/ staleCount > 0 /\ staleCount' = staleCount - 1
       \/ pendingCount > staleCount /\ staleCount' = staleCount
    /\ token' = CredentialsAfterFailure(why, token, user)[1]
    /\ user' = CredentialsAfterFailure(why, token, user)[2]
    /\ UNCHANGED <<mounted, channel, store, pendingList, staleList, pendingMark,
                   pendingMarkAll>>
    /\ Record("fetchUnreadCountFailed", FailureOutcome(why))

\* ------------------------------------------------------------- mark read
\* The rows are rendered only with a user (`if (!user) return null`).
Rendered == mounted /\ user # Null

\* onClick={() => !notification.read && markAsRead(notification.id)}
RowClickCalls(notification) == ~notification.read

\* A click on row i: markAsRead runs up to its await, the PATCH is in flight.
ClickRow(i) ==
    /\ Rendered
    /\ i \in 1..Len(notifications)
    /\ RowClickCalls(notifications[i])
    /\ InFlight < MaxInFlight
    /\ pendingMark' = [pendingMark EXCEPT ![notifications[i].id] = @ + 1]
    /\ LET after == MarkAsReadBeforeAwait(notifications, unreadCount, notifications[i].id)
       IN  notifications' = after[1] /\ unreadCount' = after[2]
    /\ UNCHANGED <<mounted, auth, channel, pendingList, pendingCount, staleList, staleCount,
                   pendingMarkAll>>
    /\ Record("clickRow", Null)

\* markAsRead, after the await, response.ok
MarkAsReadOk(notificationId) ==
    /\ pendingMark[notificationId] > 0
    /\ pendingMark' = [pendingMark EXCEPT ![notificationId] = @ - 1]
    /\ LET after == MarkAsReadAfterAwait(TRUE, notifications, unreadCount, notificationId)
       IN  notifications' = after[1] /\ unreadCount' = after[2]
    /\ UNCHANGED <<mounted, auth, channel, pendingList, pendingCount, staleList, staleCount,
                   pendingMarkAll>>
    /\ Record("markAsRead", notificationId)

\* markAsRead, after the await, !response.ok or a rejected fetch
MarkAsReadFail(notificationId, why) ==
    /\ pendingMark[notificationId] > 0
    /\ pendingMark' = [pendingMark EXCEPT ![notificationId] = @ - 1]
    /\ LET after == MarkAsReadAfterAwait(FALSE, notifications, unreadCount, notificationId)
       IN  notifications' = after[1] /\ unreadCount' = after[2]
    /\ token' = CredentialsAfterFailure(why, token, user)[1]
    /\ user' = CredentialsAfterFailure(why, token, user)[2]
    /\ UNCHANGED <<mounted, channel, pendingList, pendingCount, staleList, staleCount,
                   pendingMarkAll>>
    /\ Record("markAsReadFailed", FailureOutcome(why))

\* The "Mark all read" button is rendered only while unreadCount > 0.
MarkAllButtonShown == Rendered /\ unreadCount > 0

\* A variant of MarkAllAsReadRequests that sends one PATCH per unread record.
MarkAllPerRecord(list, marks, bulk) ==
    <<[id \in DOMAIN marks |->
          marks[id] + Cardinality({i \in 1..Len(list) : list[i].id = id /\ ~list[i].read})],
      bulk>>

\* The PATCHes in flight after markAllAsRead ran up to its await: one more
\* PATCH /notifications/mark-all-read, whatever the list holds.
MarkAllAsReadRequests(list, marks, bulk) == <<marks, bulk + 1>>

\* A click on "Mark all read": markAllAsRead runs up to its await.
ClickMarkAll ==
    /\ MarkAllButtonShown
    /\ InFlight < MaxInFlight
    /\ LET sent == MarkAllAsReadRequests(notifications, pendingMark, pendingMarkAll)
       IN  pendingMark' = sent[1] /\ pendingMarkAll' = sent[2]
    /\ UNCHANGED <<mounted, auth, channel, store, pendingList, pendingCount, staleList, staleCount>>
    /\ Record("clickMarkAll", Null)

\* markAllAsRead, after the await, response.ok
MarkAllAsReadOk ==
    /\ pendingMarkAll > 0
    /\ pendingMarkAll' = pendingMarkAll - 1
    /\ LET after == MarkAllAsReadAfterAwait(TRUE, notifications, unreadCount)
       IN  notifications' = after[1] /\ unreadCount' = after[2]
    /\ UNCHANGED <<mounted, auth, channel, pendingList, pendingCount, staleList, staleCount,
                   pendingMark>>
    /\ Record("markAllAsRead", Null)

\* markAllAsRead, after the await, !response.ok or a rejected fetch
MarkAllAsReadFail(why) ==
    /\ pendingMarkAll > 0
    /\ pendingMarkAll' = pendingMarkAll - 1
    /\ LET after == MarkAllAsReadAfterAwait(FALSE, notifications, unreadCount)
       IN  notifications' = after[1] /\ unreadCount' = after[2]
    /\ token' = CredentialsAfterFailure(why, token, user)[1]
    /\ user' = CredentialsAfterFailure(why, token, user)[2]
    /\ UNCHANGED <<mounted, channel, pendingList, pendingCount, staleList, staleCount,
                   pendingMark>>
    /\ Record("markAllAsReadFailed", FailureOutcome(why))

\* ------------------------------------------------------ the state machine
Next ==
    \/ Mount
    \/ Unmount
    \/ \E t \in Tokens \cup {Null}, u \in Users \cup {Null} : AuthChange(t, u)
    \/ OnConnect
    \/ OnDisconnect
    \/ Reconnect
    \/ \E n \in PushPayloads : OnNotification(n)
    \/ \E name \in OtherEvents : OnOtherEvent(name)
    \/ \E data \in ListBodies : FetchNotificationsOk(data)
    \/ \E why \in Failures : FetchNotificationsFail(why)
    \/ \E data \in CountBodies : FetchUnreadCountOk(data)
    \/ \E why \in Failures : FetchUnreadCountFail(why)
    \/ \E i \in 1..MaxLen + 1 : ClickRow(i)
    \/ \E id \in Ids : MarkAsReadOk(id)
    \/ \E id \in Ids, why \in Failures : MarkAsReadFail(id, why)
    \/ ClickMarkAll
    \/ MarkAllAsReadOk
    \/ \E why \in Failures : MarkAllAsReadFail(why)

Spec == Init /\ [][Next]_vars

\* The same component behind a server that also emits `notification` events
\* whose payload lacks required fields.
NextMalformed ==
    \/ Next
    \/ \E n \in MalformedPayloads : OnNotification(n)
    \/ MarkAsReadOk(Undefined)
    \/ \E why \in Failures : MarkAsReadFail(Undefined, why)

SpecMalformed == Init /\ [][NextMalformed]_vars

\* ------------------------------------------------------------ the claims
CounterEquivalence == unreadCount = Cardinality(UnreadRecords(notifications))

AllRead(list) == \A i \in 1..Len(list) : list[i].read

SnapshotStep ==
    \/ \E data \in ListBodies : FetchNotificationsOk(data)
    \/ \E data \in CountBodies : FetchUnreadCountOk(data)

\* C1: the unread counter equals the number of records whose read flag is
\* false, in every state reachable by seed, insert, markRead and markAllRead.
\* Stated step by step, which the claim implies: from a state where the two
\* agree, no operation other than the application of a snapshot response
\* leads to a state where they differ. (The two snapshot responses are left
\* out so that a disagreement between the server's list and the server's
\* count is not held against the component.)
C1_CounterEquivalence ==
    [][(CounterEquivalence /\ ~SnapshotStep) => CounterEquivalence']_vars

\* C2: a pushed `notification` whose id is already in the store changes
\* neither the length of the list nor the unread counter.
C2_IdempotentInsertion ==
    [][\A n \in PushPayloads :
          (OnNotification(n) /\ n.id \in IdsOf(notifications))
          => /\ Len(notifications') = Len(notifications)
             /\ unreadCount' = unreadCount]_vars

\* C3: no two records of the list have the same id.
C3_IdUniqueness == DistinctIds(notifications)

\* C4: two markRead requests for one id decrement the counter at most once:
\* when the response to one request for an id has just been applied, the
\* response to a second request for the same id leaves the counter as it was.
C4_MarkReadOnce ==
    [][\A id \in Ids :
          (MarkAsReadOk(id) /\ lastOp = [op |-> "markAsRead", arg |-> id])
          => unreadCount' = unreadCount]_vars

C6_MarkAllAnyOutcome ==
    lastOp.op \in {"markAllAsRead", "markAllAsReadFailed"}
    => AllRead(notifications) /\ unreadCount = 0

\* C6 as amended: when the PATCH of a markAllRead request is answered 2xx,
\* applying the response leaves every record read and the counter 0,
\* whatever the state before.
C6_MarkAllTotality ==
    lastOp.op = "markAllAsRead" => AllRead(notifications) /\ unreadCount = 0

\* C6 witness: a 2xx response applied to a store of two records.
C6_Witness ==
    /\ lastOp.op = "markAllAsRead"
    /\ Len(notifications) = 2

\* C7: a push event of any name other than `notification` (the four
\* informational names, a name without a handler) leaves the list and the
\* counter unchanged.
C7_OnlyNotificationMutates ==
    [][StepOf({"infoEvent", "unhandledEvent"})
          => \A name \in OtherEvents : OnOtherEvent(name) => UNCHANGED store]_vars

C7_Witness ==
    /\ lastOp.op = "infoEvent"
    /\ Len(notifications) > 0
    /\ unreadCount > 0

\* C8: applying the list response makes the store's list exactly the
\* fetched list, in the fetched order (empty when the body has no list), and
\* leaves the counter; applying the count response makes the counter the
\* fetched count (0 when the body has none) and leaves the list. Applied one
\* after the other, in either order, they leave the fetched list and count.
C8_SeedPostCondition ==
    [][StepOf({"fetchNotifications", "fetchUnreadCount"})
          => /\ \A data \in ListBodies :
                   FetchNotificationsOk(data)
                   => /\ notifications' = (IF data.has THEN data.notifications ELSE <<>>)
                      /\ unreadCount' = unreadCount
             /\ \A data \in CountBodies :
                   FetchUnreadCountOk(data)
                   => /\ unreadCount' = (IF data.has THEN data.count ELSE 0)
                      /\ notifications' = notifications]_vars

\* C8 witness: both responses applied back to back; the list is in the
\* server's order, b before a.
C8_Witness ==
    /\ lastOp = [op |-> "fetchUnreadCount", arg |-> "fetchNotifications"]
    /\ notifications = <<[id |-> "b", read |-> FALSE], [id |-> "a", read |-> TRUE]>>
    /\ unreadCount = 1

\* C9: the response to a markRead request for an id that is not in the
\* store changes neither the records nor the counter.
C9_MarkReadAbsent ==
    [][\A id \in Ids :
          (MarkAsReadOk(id) /\ id \notin IdsOf(notifications))
          => UNCHANGED store]_vars

\* C10: markRead(id) sets the read flag of the records with that id; every
\* record with another id keeps its flag, and the length, the ids and the
\* order of the list are unchanged.
C10_MarkReadFrame ==
    [][StepOf({"markAsRead"})
          => \A id \in Ids :
                MarkAsReadOk(id)
                => /\ Len(notifications') = Len(notifications)
                   /\ \A i \in 1..Len(notifications) :
                         /\ notifications'[i].id = notifications[i].id
                         /\ notifications'[i].read
                              = (notifications[i].read \/ notifications[i].id = id)]_vars

C10_Witness ==
    /\ lastOp = [op |-> "markAsRead", arg |-> "a"]
    /\ notifications = <<[id |-> "b", read |-> FALSE], [id |-> "a", read |-> TRUE]>>

\* C11 as claimed: a click on an unread row marks its record read and
\* decrements the counter at once, while the PATCH is still in flight.
C11_OptimisticMarkRead ==
    [][\A i \in 1..MaxLen + 1 :
          ClickRow(i)
          => /\ notifications'[i].read
             /\ unreadCount' = DecrementClamped(unreadCount)]_vars

\* C11 as amended: a click on an unread row only issues the PATCH; the store
\* is as before while the PATCH is in flight (the record still unread, the
\* counter not decremented), and the record is marked read and the counter
\* decremented when the 2xx response is applied.
C11_MarkReadOnAck ==
    [][StepOf({"clickRow", "markAsRead"})
          => /\ \A i \in 1..MaxLen + 1 :
                   ClickRow(i)
                   => /\ UNCHANGED store
                      /\ ~notifications'[i].read
                      /\ pendingMark'[notifications[i].id] = pendingMark[notifications[i].id] + 1
             /\ \A id \in Ids :
                   MarkAsReadOk(id)
                   => /\ \A i \in 1..Len(notifications) :
                            notifications[i].id = id => notifications'[i].read
                      /\ unreadCount' = (IF unreadCount > 0 THEN unreadCount - 1 ELSE 0)]_vars

\* C11 witness: the PATCH for a is in flight and a is still shown unread.
C11_Witness ==
    /\ lastOp.op = "clickRow"
    /\ pendingMark["a"] = 1
    /\ notifications = <<[id |-> "a", read |-> FALSE]>>
    /\ unreadCount = 1

\* C12 as claimed: after the PATCH of a markRead request for an id failed,
\* the records with that id are shown read; after a failed mark-all-read
\* PATCH every record is.
C12_OptimisticStateKept ==
    [][/\ \A id \in Ids, why \in Failures :
             MarkAsReadFail(id, why)
             => \A i \in 1..Len(notifications') :
                   notifications'[i].id = id => notifications'[i].read
       /\ \A why \in Failures :
             MarkAllAsReadFail(why) => AllRead(notifications')]_vars

\* C12 as amended: a failed PATCH (network error or non-2xx), of a markRead
\* request or of a mark-all-read request, leaves the list and the counter
\* exactly as they were before the response: nothing was changed at request
\* time, so there is nothing to roll back and the record stays as it was.
C12_FailureLeavesStore ==
    [][StepOf({"markAsReadFailed", "markAllAsReadFailed"})
          => /\ \A id \in Ids, why \in Failures :
                   MarkAsReadFail(id, why) => UNCHANGED store
             /\ \A why \in Failures :
                   MarkAllAsReadFail(why) => UNCHANGED store]_vars

\* C12 witness: the PATCH for a failed and a is still unread.
C12_Witness ==
    /\ lastOp.op = "markAsReadFailed"
    /\ pendingMark["a"] = 0
    /\ notifications = <<[id |-> "a", read |-> FALSE]>>
    /\ unreadCount = 1

\* C13: one click on "Mark all read" puts exactly one PATCH
\* /notifications/mark-all-read in flight and no other request, however
\* many records the store holds; its response, 2xx or not, sends nothing.
C13_OneBulkPatch ==
    [][StepOf({"clickMarkAll", "markAllAsRead", "markAllAsReadFailed"})
          => /\ ClickMarkAll
                => /\ pendingMarkAll' = pendingMarkAll + 1
                   /\ pendingMark' = pendingMark
                   /\ pendingList' = pendingList
                   /\ pendingCount' = pendingCount
             /\ (MarkAllAsReadOk \/ \E why \in Failures : MarkAllAsReadFail(why))
                => /\ pendingMarkAll' = pendingMarkAll - 1
                   /\ pendingMark' = pendingMark
                   /\ pendingList' = pendingList
                   /\ pendingCount' = pendingCount]_vars

\* C13 witness: two unread records, one bulk PATCH in flight, none per record.
C13_Witness ==
    /\ lastOp.op = "clickMarkAll"
    /\ Len(notifications) = 2
    /\ ~AllRead(notifications)
    /\ pendingMarkAll = 1
    /\ pendingMark = [id \in PatchIds |-> 0]

\* C14: a mounted component has at most one socket that io() made and
\* close() has not closed; a change of token or user closes the old socket
\* before the new one is made, and an unmounted component, or one without
\* token or user, has none.
C14_SingleChannel ==
    /\ openSockets \in {0, 1}
    /\ ~mounted => openSockets = 0
    /\ (token = Null \/ user = Null) => openSockets = 0
    /\ (openSockets = 0) = (socket = "none")

\* C14 witness: the token was replaced while the socket of the old token was
\* open; one socket exists, the new one, still in its handshake.
C14_Witness ==
    /\ lastOp = [op |-> "auth", arg |-> "open"]
    /\ token = "t2"
    /\ socket = "opening"
    /\ openSockets = 1

\* C15: while the token is absent no socket exists and no step issues a
\* list fetch or a count fetch.
C15_NothingWithoutToken ==
    /\ [](token = Null => (socket = "none" /\ openSockets = 0))
    /\ [][token' = Null
          => (pendingList' <= pendingList /\ pendingCount' <= pendingCount)]_vars

\* C15 witness: mounted without a token, nothing opened, nothing in flight.
C15_Witness ==
    /\ lastOp.op = "mount"
    /\ mounted
    /\ token = Null
    /\ socket = "none"
    /\ InFlight = 0

\* C16: isConnected is true only while the current socket is open: it is
\* set by the handshake of the current socket and cleared when the socket
\* drops, is closed by a change of credentials, or the component unmounts.
C16_ConnectedImpliesOpen ==
    isConnected => (socket = "open" /\ openSockets = 1 /\ mounted)

\* C16 witness: the credentials were lost while connected.
C16_Witness ==
    /\ lastOp = [op |-> "auth", arg |-> "open"]
    /\ token = Null
    /\ ~isConnected
    /\ socket = "none"

\* C17: closing is idempotent: from any reachable state, closing twice gives
\* what closing once gives, the state after a close is disconnected, and a
\* close that finds no socket changes nothing.
C17_DisconnectIdempotent ==
    LET once == SocketCleanup(socket, isConnected, openSockets)
        twice == SocketCleanup(once[1], once[2], once[3])
    IN  /\ twice = once
        /\ once[2] = FALSE
        /\ socket = "none" => once = <<socket, isConnected, openSockets>>
        /\ socket # "open" => once[2] = isConnected

\* C17 witness: the cleanup closed a socket that had already dropped.
C17_Witness ==
    /\ lastOp = [op |-> "unmount", arg |-> "down"]
    /\ ~isConnected
    /\ socket = "none"


\* C18: a pushed payload that lacks a required field is rejected: the store
\* (list and counter) is the same after the handler as before it.
C18_MalformedRejected ==
    [][\A n \in MalformedPayloads : OnNotification(n) => UNCHANGED store]_vars


\* C19: when a snapshot request has failed, the store stays as it was: the
\* answer to the other request of the same snapshot does not seed it.
C19_NoPartialSeed ==
    [][\A data \in CountBodies :
          (FetchUnreadCountOk(data) /\ lastOp.op = "fetchNotificationsFailed")
              => UNCHANGED store]_vars

FailedOps ==
    {"fetchNotificationsFailed", "fetchUnreadCountFailed", "markAsReadFailed",
     "markAllAsReadFailed"}

\* C20 as written: every failed REST request, a network error or a non-2xx
\* response, is caught and logged.
C20_EveryFailureLogged == lastOp.op \in FailedOps => lastOp.arg = "logged"

FailureStep(why) ==
    /\ StepOf(FailedOps)
    /\ \/ FetchNotificationsFail(why)
       \/ FetchUnreadCountFail(why)
       \/ \E id \in Ids : MarkAsReadFail(id, why)
       \/ MarkAllAsReadFail(why)

\* C20: for each of the four REST operations a network error is caught and
\* logged, a non-2xx response is skipped without a log entry, and neither
\* propagates to the caller.
C20_FailuresTerminal ==
    [][/\ FailureStep("network error") => lastOp'.arg = "logged"
       /\ FailureStep("non-2xx") => lastOp'.arg = "skipped"]_vars

C20_Witness == lastOp = [op |-> "markAllAsReadFailed", arg |-> "skipped"]


\* C21 as written: once the channel has dropped, the socket stays down until
\* the component is unmounted or the token or user changes.
C21_StaysDisconnected ==
    [][(socket = "down" /\ lastOp'.op \notin {"auth", "unmount"})
          => socket' = "down"]_vars

\* C21: once the channel has dropped, the component makes no new socket until
\* it is unmounted or the token or user changes; the socket.io client may
\* start a new handshake of the same socket on its own, and the state stays
\* disconnected until that handshake succeeds.
C21_NoNewSocketAfterDrop ==
    [][(socket = "down" /\ lastOp'.op \notin {"auth", "unmount"})
          => /\ openSockets' = openSockets
             /\ socket' \in {"down", "opening"}
             /\ ~isConnected']_vars

\* C21 witness: the dropped socket is in a new handshake, with no io() call.
C21_Witness ==
    /\ lastOp.op = "reconnect"
    /\ socket = "opening"
    /\ ~isConnected
    /\ openSockets = 1


\* C22: the answer to a list or count request that was issued under an
\* earlier token is not written into the store.
C22_StaleAnswerDropped ==
    [][(mounted' /\ (staleList' < staleList \/ staleCount' < staleCount))
          => UNCHANGED store]_vars

\* C23: when the token or the user is lost or replaced, the records and the
\* counter of the session before are discarded.
C23_StorePerSession ==
    [][(mounted /\ token # Null /\ token' # token)
          => (notifications' = <<>> /\ unreadCount' = 0)]_vars


\* C24: a record pushed between the list response and the count response
\* leaves the counter equal to the number of unread records once both are
\* applied. The count is the one the server computed with the list, before
\* the pushed record existed.
C24_SkewTolerated ==
    [][\A data \in CountBodies :
          (/\ FetchUnreadCountOk(data)
           /\ lastOp = [op |-> "notification", arg |-> "fetchNotifications"]
           /\ data.has
           /\ data.count = Cardinality(UnreadRecords(Tail(notifications))))
              => CounterEquivalence']_vars

\* C25: a record pushed while the list request is in flight is still in the
\* store after the list response is applied.
C25_PushedRecordKept ==
    [][\A data \in ListBodies :
          (FetchNotificationsOk(data) /\ lastOp.op = "notification")
              => notifications[1].id \in IdsOf(notifications')]_vars


\* C26: whenever the list and count requests of a session are issued, the
\* socket of that session has been made and its handlers are registered.
C26_HandlersBeforeSnapshot ==
    [][pendingList' > pendingList => socket' \in {"opening", "open"}]_vars


\* C27: the unread counter is never negative.
C27_CounterNonNegative == unreadCount >= 0

\* C27 witness: a mark-read answer has been applied and the counter is 0
\* while an unread record is still listed.
C27_Witness ==
    /\ lastOp = [op |-> "markAsRead", arg |-> "a"]
    /\ unreadCount = 0
    /\ notifications = <<[id |-> "a", read |-> TRUE], [id |-> "b", read |-> FALSE]>>


\* C28: a 401 answer to any of the four REST calls changes neither the
\* credentials nor the socket and connection state nor the store: the step is
\* the one any other non-2xx answer makes.
C28_UnauthorizedNotHandled ==
    [][FailureStep(Unauthorized)
          => (UNCHANGED <<mounted, auth, channel, store>> /\ FailureStep("non-2xx"))]_vars

\* C28 witness: a list request has failed the way a 401 does, and the
\* component is still logged in, connected and showing its records.
C28_Witness ==
    /\ lastOp = [op |-> "fetchNotificationsFailed", arg |-> FailureOutcome(Unauthorized)]
    /\ token # Null
    /\ user # Null
    /\ isConnected
    /\ notifications # <<>>


\* C29: between two seeds (list responses) of a mounted component, no step
\* takes a stored record's read flag from true back to false: every record
\* that was read is still there, in its place behind the records pushed since,
\* and still read.
C29_ReadMonotonic ==
    [][lastOp'.op \notin {"fetchNotifications", "unmount"}
          => LET shift == Len(notifications') - Len(notifications)
             IN  /\ shift >= 0
                 /\ \A i \in 1..Len(notifications) :
                       notifications[i].read
                           => /\ notifications'[i + shift].id = notifications[i].id
                              /\ notifications'[i + shift].read]_vars

\* C29 witness: a was read already when the mark-read answer for b was
\* applied, and is read still.
C29_Witness ==
    /\ lastOp = [op |-> "markAsRead", arg |-> "b"]
    /\ notifications = <<[id |-> "a", read |-> TRUE], [id |-> "b", read |-> TRUE]>>

\* C30: a record pushed while a mark-all-read PATCH is in flight, which the
\* server created after it had handled the PATCH, is not shown as read when
\* the PATCH succeeds.
C30_ReadNotAheadOfServer ==
    [][(MarkAllAsReadOk /\ lastOp.op = "notification") => ~notifications'[1].read]_vars

====
